---- MODULE Spec2Model ----
(***************************************************************************)
(* A model of jsdoc-tsimport-plugin (src/index.js).                        *)
(*                                                                         *)
(* JavaScript strings are sequences of one-character strings, so that the  *)
(* regular expressions and the path functions of the plugin are computed   *)
(* character by character.  The empty sequence stands for '' and, where a  *)
(* value is only tested for truthiness, for null.  A regular-expression    *)
(* group that did not participate in a match is the value Undefined.       *)
(***************************************************************************)
EXTENDS Integers, Sequences, FiniteSets, TLC

VARIABLES
    absSrcDirs,        \* the configured source roots, in order
    fs,                \* storage: path -> text of the file, or NoFile
    fileInfos,         \* Map<string, FileInfo>
    moduleToTypeDefs,  \* Map<string, Set<string>>
    parsed,            \* e.source of each file the host has pre-parsed
    aborted,           \* an exception left a handler: the run is over
    ev,                \* the last call: its arguments and what it returned
    fsChanges          \* how many times storage changed during the run

vars == <<absSrcDirs, fs, fileInfos, moduleToTypeDefs, parsed,
          aborted, ev, fsChanges>>

----------------------------------------------------------------------------
(* Characters and character classes of the regular expressions.            *)

Lower == {"a","b","c","d","e","f","g","h","i","j","k","l","m",
          "n","o","p","q","r","s","t","u","v","w","x","y","z"}
Upper == {"A","B","C","D","E","F","G","H","I","J","K","L","M",
          "N","O","P","Q","R","S","T","U","V","W","X","Y","Z"}
Digit == {"0","1","2","3","4","5","6","7","8","9"}

\* \w
WordCh == Lower \cup Upper \cup Digit \cup {"_"}
\* \s
SpaceCh == {" ", "\t", "\n", "\r", "\f"}
\* [\w\/] of moduleNameRegex
ModuleCh == WordCh \cup {"/"}
\* [\w-\$] of typedefRegex
TypedefCh == WordCh \cup {"-", "$"}
\* [\.\/_a-zA-Z0-9-\$] of importRegex
ImportPathCh == Lower \cup Upper \cup Digit \cup {".", "/", "_", "-", "$"}
\* [_a-zA-Z0-9-\$] of importRegex
SymbolCh == Lower \cup Upper \cup Digit \cup {"_", "-", "$"}
\* [\w-\$\.] of identifiers
IdentCh == WordCh \cup {"-", "$", "."}
QuoteCh == {"'", "\""}

\* Values that are no string: each is a sequence holding one name that is no
\* character, so that it differs from every string.
Undefined == <<"undefined">>
NoFile == <<"ENOENT">>

----------------------------------------------------------------------------
(* String primitives.                                                      *)

Slice(s, from) == SubSeq(s, from + 1, Len(s))

StartsWith(s, p) == Len(p) <= Len(s) /\ SubSeq(s, 1, Len(p)) = p

\* s has pat at (1-based) position i
At(s, pat, i) == i >= 1 /\ i + Len(pat) - 1 <= Len(s)
                 /\ SubSeq(s, i, i + Len(pat) - 1) = pat

\* The first position >= from where pat occurs in s, 0 if none.
RECURSIVE IndexOf(_, _, _)
IndexOf(s, pat, from) ==
    IF from + Len(pat) - 1 > Len(s) THEN 0
    ELSE IF At(s, pat, from) THEN from
    ELSE IndexOf(s, pat, from + 1)

\* The last position of character c in s, 0 if none.
RECURSIVE LastIndexOf(_, _, _)
LastIndexOf(s, c, i) ==
    IF i < 1 THEN 0
    ELSE IF s[i] = c THEN i
    ELSE LastIndexOf(s, c, i - 1)

\* The end of the longest run of characters of class cls starting at i
\* (i - 1 when the run is empty): a greedy cls* .
RECURSIVE RunEnd(_, _, _)
RunEnd(s, cls, i) ==
    IF i <= Len(s) /\ s[i] \in cls THEN RunEnd(s, cls, i + 1) ELSE i - 1

\* s.replace(/\\/g, '/')
ReplaceBackslash(s) == [i \in 1..Len(s) |-> IF s[i] = "\\" THEN "/" ELSE s[i]]

----------------------------------------------------------------------------
(* node's path module, posix flavour.                                      *)

\* The end of the run of characters other than c that starts at i.
RECURSIVE RunEndNot(_, _, _)
RunEndNot(s, c, i) ==
    IF i <= Len(s) /\ s[i] # c THEN RunEndNot(s, c, i + 1) ELSE i - 1

\* The segments of p between slashes, empty ones dropped.
RECURSIVE Segments(_, _)
Segments(p, i) ==
    IF i > Len(p) THEN <<>>
    ELSE IF p[i] = "/" THEN Segments(p, i + 1)
    ELSE LET e == RunEndNot(p, "/", i)
         IN  <<SubSeq(p, i, e)>> \o Segments(p, e + 1)

\* Resolve "." and ".." segments (normalizeString of path.normalize).
RECURSIVE Resolve(_, _, _)
Resolve(segs, acc, abs) ==
    IF segs = <<>> THEN acc
    ELSE IF Head(segs) = <<".">> THEN Resolve(Tail(segs), acc, abs)
    ELSE IF Head(segs) # <<".", ".">>
    THEN Resolve(Tail(segs), Append(acc, Head(segs)), abs)
    ELSE IF acc # <<>> /\ acc[Len(acc)] # <<".", ".">>
    THEN Resolve(Tail(segs), SubSeq(acc, 1, Len(acc) - 1), abs)
    ELSE Resolve(Tail(segs), IF abs THEN acc ELSE Append(acc, Head(segs)), abs)

RECURSIVE JoinSegs(_)
JoinSegs(segs) ==
    IF segs = <<>> THEN <<>>
    ELSE IF Len(segs) = 1 THEN segs[1]
    ELSE segs[1] \o <<"/">> \o JoinSegs(Tail(segs))

\* The normalized path from its resolved body.
Assemble(abs, trailing, body) ==
    IF body = <<>>
    THEN (IF abs THEN <<"/">> ELSE IF trailing THEN <<".", "/">> ELSE <<".">>)
    ELSE (IF abs THEN <<"/">> ELSE <<>>) \o body
         \o (IF trailing THEN <<"/">> ELSE <<>>)

\* path.normalize
normalize(p) ==
    IF p = <<>> THEN <<".">>
    ELSE Assemble(p[1] = "/", p[Len(p)] = "/",
                  JoinSegs(Resolve(Segments(p, 1), <<>>, p[1] = "/")))

\* path.join of two arguments
join(a, b) ==
    normalize(IF a = <<>> THEN b ELSE IF b = <<>> THEN a
              ELSE a \o <<"/">> \o b)

\* path.isAbsolute
isAbsolute(p) == p # <<>> /\ p[1] = "/"

\* p without its trailing slashes (the root "/" is kept)
RECURSIVE StripSlashes(_)
StripSlashes(p) ==
    IF Len(p) > 1 /\ p[Len(p)] = "/" THEN StripSlashes(SubSeq(p, 1, Len(p) - 1))
    ELSE p

\* The directory of q, a path without trailing slashes, whose last slash
\* is at k.
DirUpTo(q, k) ==
    IF k = 0 THEN <<".">>
    ELSE IF k = 1 THEN <<"/">>
    ELSE StripSlashes(SubSeq(q, 1, k - 1))

LastSlash(q) == LastIndexOf(q, "/", Len(q))

\* path.dirname
dirname(p) ==
    IF p = <<>> THEN <<".">>
    ELSE DirUpTo(StripSlashes(p), LastSlash(StripSlashes(p)))

BaseOf(q) == IF q = <<"/">> THEN <<>> ELSE SubSeq(q, LastSlash(q) + 1, Len(q))

\* path.basename
basename(p) == BaseOf(StripSlashes(p))

\* The extension of base name b: from its last dot, unless that dot is its
\* first character or b is "..".
ExtOf(b, k) ==
    IF k <= 1 \/ b = <<".", ".">> THEN <<>> ELSE SubSeq(b, k, Len(b))

ExtOfBase(b) == ExtOf(b, LastIndexOf(b, ".", Len(b)))

\* path.extname
extname(p) == ExtOfBase(basename(p))

\* function noExtension(filename)
noExtension(filename) ==
    SubSeq(filename, 1, Len(filename) - Len(extname(filename)))

----------------------------------------------------------------------------
(* Literal texts of the source.                                            *)

sDocOpen   == <<"/","*","*">>
sDocClose  == <<"*","/">>
sModuleTag == <<"@","m","o","d","u","l","e">>
sTypedef   == <<"@","t","y","p","e","d","e","f">>
sImport    == <<"i","m","p","o","r","t","(">>
sModule    == <<"m","o","d","u","l","e",":">>
\* String(undefined), what String.prototype.replace inserts when its
\* callback returns undefined
sUndefined == <<"u","n","d","e","f","i","n","e","d">>

----------------------------------------------------------------------------
(* Storage: fs.existsSync, fs.readdirSync, fs.readFileSync.                *)

IsFile(p) == p \in DOMAIN fs /\ fs[p] # NoFile

\* A directory exists when a file lies below it; "." is the working
\* directory, which holds none of the files of the model.
IsDir(d) == \/ d = <<"/">>
            \/ d = <<".">>
            \/ \E f \in DOMAIN fs : IsFile(f) /\ StartsWith(f, d \o <<"/">>)

existsSync(p) == IsFile(p) \/ IsDir(p)

\* The names of the entries of directory d.
readdirSync(d) ==
    LET pre == IF d = <<"/">> THEN d ELSE d \o <<"/">>
    IN  { SubSeq(f, Len(pre) + 1, RunEndNot(f, "/", Len(pre) + 1)) :
            f \in { g \in DOMAIN fs : IsFile(g) /\ StartsWith(g, pre) } }

----------------------------------------------------------------------------
(* The regular expressions, as scanners.                                   *)

\* docCommentsRegex: the spans <<first, last>> of its matches in s from i.
\* A match opens at "/**" and ends at the first "*/" that starts after it.
RECURSIVE DocComments(_, _)
DocComments(s, i) ==
    LET j == IndexOf(s, sDocOpen, i)
        k == IF j = 0 THEN 0 ELSE IndexOf(s, sDocClose, j + 3)
    IN  IF j = 0 \/ k = 0 THEN <<>>
        ELSE <<<<j, k + 1>>>> \o DocComments(s, k + 2)

\* The first position >= i of "@module" followed by white space, 0 if none.
RECURSIVE ModuleTagAt(_, _)
ModuleTagAt(c, i) ==
    LET j == IndexOf(c, sModuleTag, i)
    IN  IF j = 0 THEN 0
        ELSE IF j + 7 <= Len(c) /\ c[j + 7] \in SpaceCh THEN j
        ELSE ModuleTagAt(c, j + 1)

\* comment.match(moduleNameRegex): whether it matched, and its group 1.
moduleNameMatch(c) ==
    LET j  == ModuleTagAt(c, 1)
        w  == RunEnd(c, SpaceCh, j + 7)
        n  == RunEnd(c, ModuleCh, w + 1)
    IN  IF j = 0 THEN [found |-> FALSE, name |-> Undefined]
        ELSE [found |-> TRUE,
              name  |-> IF n > w THEN SubSeq(c, w + 1, n) ELSE Undefined]

\* typedefRegex: group 1 of each of its matches in c from i, in order.
RECURSIVE TypedefNames(_, _)
TypedefNames(c, i) ==
    LET j == IndexOf(c, sTypedef, i)
        a == RunEnd(c, SpaceCh, j + 8) + 1
        b == IF a <= Len(c) /\ c[a] = "{" THEN IndexOf(c, <<"}">>, a + 1) ELSE 0
        w == RunEnd(c, SpaceCh, b + 1)
        n == RunEnd(c, TypedefCh, w + 1)
    IN  IF j = 0 THEN <<>>
        ELSE IF b = 0 THEN TypedefNames(c, j + 1)
        ELSE <<SubSeq(c, w + 1, n)>> \o TypedefNames(c, n + 1)

\* importRegex: its first match in c at or after i, as
\* [at, end, path (group 1), symbol (group 2)]; at = 0 when there is none.
\* The greedy group 1 takes every path character, a trailing ".js"
\* included, so the optional (?:\.js) never takes part in a match.
RECURSIVE ImportMatch(_, _)
ImportMatch(c, i) ==
    LET j  == IndexOf(c, sImport, i)
        q  == j + 7
        a  == IF q + 1 <= Len(c) /\ c[q + 1] = "@" THEN q + 2 ELSE q + 1
        e  == RunEnd(c, ImportPathCh, a)
        ok == /\ q <= Len(c) /\ c[q] \in QuoteCh
              /\ e + 2 <= Len(c) /\ c[e + 1] \in QuoteCh /\ c[e + 2] = ")"
        d  == IF e + 3 <= Len(c) /\ c[e + 3] = "." THEN e + 3 ELSE e + 2
        z  == RunEnd(c, SymbolCh, d + 1)
    IN  IF j = 0 THEN [at |-> 0, end |-> 0, path |-> <<>>, symbol |-> Undefined]
        ELSE IF ~ok THEN ImportMatch(c, j + 1)
        ELSE [at |-> j, end |-> z, path |-> SubSeq(c, q + 1, e),
              symbol |-> IF z > d THEN SubSeq(c, d + 1, z) ELSE Undefined]

----------------------------------------------------------------------------
(* getFileInfo.  The two maps are threaded through the calls as the record *)
(* st = [fi |-> fileInfos, td |-> moduleToTypeDefs]; a result carries the  *)
(* maps as the call left them and threw, the exception that left the call  *)
(* ("" when it returned).  An operator named ...With takes the value of a  *)
(* local constant of the function as a parameter.                          *)

NoError == ""

\* absSrcDirs.find((iSrcDir) => filenameNor.startsWith(iSrcDir)), as the
\* index of the root found, 0 for undefined
RECURSIVE FindSrcDir(_, _)
FindSrcDir(filenameNor, i) ==
    IF i > Len(absSrcDirs) THEN 0
    ELSE IF StartsWith(filenameNor, absSrcDirs[i]) THEN i
    ELSE FindSrcDir(filenameNor, i + 1)

\* Lines 92-93 with srcDir = absSrcDirs[k]; reading srcDir.length of an
\* undefined srcDir (k = 0) throws a TypeError.
ImplicitModuleIdWith(filenameNor, k) ==
    IF k = 0 THEN [threw |-> "TypeError", moduleId |-> <<>>]
    ELSE [threw |-> NoError,
          moduleId |-> ReplaceBackslash(
              Slice(noExtension(filenameNor), Len(absSrcDirs[k]) + 1))]

\* The implicit module id of an argument-less @module tag.
ImplicitModuleId(filenameNor) ==
    ImplicitModuleIdWith(filenameNor, FindSrcDir(filenameNor, 1))

\* Lines 84-98 with moduleNameMatch = mm; acc is the fileInfo being filled.
SetModuleId(acc, filenameNor, mm) ==
    IF acc.moduleId # <<>> \/ ~mm.found THEN acc
    ELSE IF mm.name # Undefined THEN [acc EXCEPT !.moduleId = mm.name]
    ELSE [acc EXCEPT !.moduleId = ImplicitModuleId(filenameNor).moduleId,
                     !.threw = ImplicitModuleId(filenameNor).threw]

\* Lines 100-103: add all typedefs within the comment.
AddTypedefs(acc, comment) ==
    IF acc.threw # NoError THEN acc
    ELSE [acc EXCEPT !.typedefs = @ \o TypedefNames(comment, 1)]

\* The callback of s.replace(docCommentsRegex, ...) for one comment.
ScanComment(comment, filenameNor, acc) ==
    AddTypedefs(SetModuleId(acc, filenameNor, moduleNameMatch(comment)), comment)

\* The callback run over the comments of s in order.
RECURSIVE ScanComments(_, _, _, _)
ScanComments(s, spans, filenameNor, acc) ==
    IF spans = <<>> \/ acc.threw # NoError THEN acc
    ELSE ScanComments(s, Tail(spans), filenameNor,
             ScanComment(SubSeq(s, spans[1][1], spans[1][2]), filenameNor, acc))

\* A set that replaces the set of the module instead of joining it.
RegisterOverwriting(td, moduleId, typedefs) ==
    [m \in DOMAIN td \cup {moduleId} |->
        IF m # moduleId THEN td[m]
        ELSE { typedefs[i] : i \in 1..Len(typedefs) }]

\* Keep a list of typedefs per module (lines 110-117).
RegisterTypedefs(td, moduleId, typedefs) ==
    [m \in DOMAIN td \cup {moduleId} |->
        IF m # moduleId THEN td[m]
        ELSE (IF moduleId \in DOMAIN td THEN td[moduleId] ELSE {})
             \cup { typedefs[i] : i \in 1..Len(typedefs) }]

\* A cache keyed by the moduleId instead of the file name.
StoreByModuleId(fi, filenameNor, fileInfo) ==
    [f \in DOMAIN fi \cup {fileInfo.moduleId} |->
        IF f = fileInfo.moduleId THEN fileInfo ELSE fi[f]]

\* fileInfos.set(filenameNor, fileInfo)
StoreFileInfo(fi, filenameNor, fileInfo) ==
    [f \in DOMAIN fi \cup {filenameNor} |->
        IF f = filenameNor THEN fileInfo ELSE fi[f]]

\* Lines 106-120 with the fileInfo the scan filled.
FinishFileInfo(st, fileInfo, threw) ==
    IF threw # NoError
    THEN [fi |-> st.fi, td |-> st.td, info |-> fileInfo, threw |-> threw,
          hit |-> FALSE]
    ELSE [fi |-> StoreFileInfo(st.fi, fileInfo.filename, fileInfo),
          td |-> RegisterTypedefs(st.td, fileInfo.moduleId, fileInfo.typedefs),
          info |-> fileInfo, threw |-> NoError, hit |-> FALSE]

\* Lines 77-120 with the scan's result acc.
FileInfoFrom(st, filenameNor, acc) ==
    FinishFileInfo(st, [moduleId |-> acc.moduleId, typedefs |-> acc.typedefs,
                        filename |-> filenameNor], acc.threw)

\* Lines 83-105 with s, the text of the file.
ScanText(st, filenameNor, s) ==
    FileInfoFrom(st, filenameNor,
        ScanComments(s, DocComments(s, 1), filenameNor,
            [moduleId |-> <<>>, typedefs |-> <<>>, threw |-> NoError]))

\* Lines 81-82: source || (existsSync(filenameNor) ? readFileSync(..) : '')
SourceOrFile(filenameNor, source) ==
    IF source # <<>> THEN source
    ELSE IF IsFile(filenameNor) THEN fs[filenameNor]
    ELSE <<>>

\* getFileInfo with filenameNor = path.normalize(filename); readFileSync of
\* a directory throws EISDIR.
getFileInfoWith(st, filenameNor, source) ==
    IF filenameNor \in DOMAIN st.fi
    THEN [fi |-> st.fi, td |-> st.td, info |-> st.fi[filenameNor],
          threw |-> NoError, hit |-> TRUE]
    ELSE IF source = <<>> /\ ~IsFile(filenameNor) /\ IsDir(filenameNor)
    THEN [fi |-> st.fi, td |-> st.td,
          info |-> [moduleId |-> <<>>, typedefs |-> <<>>, filename |-> filenameNor],
          threw |-> "EISDIR", hit |-> FALSE]
    ELSE ScanText(st, filenameNor, SourceOrFile(filenameNor, source))

\* function getFileInfo(filename, source = null)
getFileInfo(st, filename, source) ==
    getFileInfoWith(st, normalize(filename), source)

----------------------------------------------------------------------------
(* getModuleId and its helpers.                                            *)

\* function relPath(root, relative)
relPath(root, relative) ==
    IF isAbsolute(relative) THEN relative
    ELSE normalize(join(dirname(root), relative))

\* What inferExtension returns when the literal file exists (line 186).
ExistingFileResult(filename, ext) == ext

\* Lines 195-196 with the entries files.find accepts.  No directory of the
\* model holds two entries with the same name once the extension is
\* stripped, so the order of the listing does not matter to files.find.
FoundFileResult(filename, dir, found) ==
    IF found = {} THEN [threw |-> NoError, path |-> filename]
    ELSE [threw |-> NoError, path |-> join(dir, CHOOSE f \in found : TRUE)]

\* Lines 186-196 with ext, path.dirname(filenameNor) and
\* path.basename(filenameNor); readdirSync throws ENOENT when the directory
\* does not exist.
inferExtensionWith(filename, ext, dir, name) ==
    IF ext # <<>> /\ existsSync(filename)
    THEN [threw |-> NoError, path |-> ExistingFileResult(filename, ext)]
    ELSE IF ~IsDir(dir) THEN [threw |-> "ENOENT", path |-> <<>>]
    ELSE FoundFileResult(filename, dir,
             { iFile \in readdirSync(dir) : noExtension(iFile) = name })

inferExtensionNor(filename, filenameNor) ==
    inferExtensionWith(filename, extname(filenameNor), dirname(filenameNor),
                       basename(filenameNor))

\* function inferExtension(filename)
inferExtension(filename) == inferExtensionNor(filename, normalize(filename))

\* Line 159: return getFileInfo(absPath).moduleId, r what getFileInfo gave
ModuleIdOf(r) ==
    [fi |-> r.fi, td |-> r.td, id |-> r.info.moduleId, threw |-> r.threw]

\* Lines 158-159 with what inferExtension gave
getModuleIdWith(st, abs) ==
    IF abs.threw # NoError
    THEN [fi |-> st.fi, td |-> st.td, id |-> <<>>, threw |-> abs.threw]
    ELSE ModuleIdOf(getFileInfo(st, abs.path, <<>>))

\* function getModuleId(filename, relImportPath)
getModuleId(st, filename, relImportPath) ==
    IF ~StartsWith(relImportPath, <<".">>)
    THEN [fi |-> st.fi, td |-> st.td, id |-> relImportPath, threw |-> NoError]
    ELSE getModuleIdWith(st, inferExtension(relPath(filename, relImportPath)))

----------------------------------------------------------------------------
(* beforeParse.                                                            *)

\* The value the inner replace callback returns (line 139), as the text
\* String.prototype.replace inserts for it.
Replacement(moduleId, symbolName) ==
    IF moduleId # <<>>
    THEN sModule \o moduleId
         \o (IF symbolName # Undefined THEN <<"~">> \o symbolName ELSE <<>>)
    ELSE IF symbolName # Undefined THEN symbolName ELSE sUndefined

\* A rewriting result with text and ids put in front of its own.
Prepend(text, ids, rest) ==
    [rest EXCEPT !.out = text \o @, !.ids = ids \o @]

RECURSIVE RewriteImports(_, _, _, _)

\* The callback of substring.replace(importRegex, ...) for the match m at
\* or after position i of the comment c, r what getModuleId gave for it.
RewriteImportWith(filename, c, i, m, r) ==
    IF r.threw # NoError
    THEN [fi |-> r.fi, td |-> r.td, out |-> <<>>, ids |-> <<>>,
          threw |-> r.threw]
    ELSE Prepend(SubSeq(c, i, m.at - 1) \o Replacement(r.id, m.symbol),
                 <<r.id>>,
                 RewriteImports([fi |-> r.fi, td |-> r.td], filename, c,
                                m.end + 1))

RewriteImportAt(st, filename, c, i, m) ==
    IF m.at = 0
    THEN [fi |-> st.fi, td |-> st.td, out |-> SubSeq(c, i, Len(c)),
          ids |-> <<>>, threw |-> NoError]
    ELSE RewriteImportWith(filename, c, i, m, getModuleId(st, filename, m.path))

\* substring.replace(importRegex, ...) on the comment c from position i:
\* out is the rewritten text, ids the moduleIds getModuleId returned.
RewriteImports(st, filename, c, i) ==
    RewriteImportAt(st, filename, c, i, ImportMatch(c, i))

RECURSIVE RewriteComments(_, _, _, _, _)

\* The outer replace callback for the comment at spans[1], r its rewriting.
RewriteCommentWith(filename, s, spans, i, r) ==
    IF r.threw # NoError THEN r
    ELSE Prepend(SubSeq(s, i, spans[1][1] - 1) \o r.out, r.ids,
                 RewriteComments([fi |-> r.fi, td |-> r.td], filename, s,
                                 Tail(spans), spans[1][2] + 1))

\* e.source.replace(docCommentsRegex, ...) over the comments of s that
\* start at or after position i.
RewriteComments(st, filename, s, spans, i) ==
    IF spans = <<>>
    THEN [fi |-> st.fi, td |-> st.td, out |-> SubSeq(s, i, Len(s)),
          ids |-> <<>>, threw |-> NoError]
    ELSE RewriteCommentWith(filename, s, spans, i,
             RewriteImports(st, filename,
                            SubSeq(s, spans[1][1], spans[1][2]), 1))

\* e.source is assigned only when the replace returns.
AssignSource(source, r) ==
    IF r.threw # NoError THEN [r EXCEPT !.out = source, !.ids = <<>>] ELSE r

\* Lines 134-141 with g, what getFileInfo(e.filename, e.source) gave
beforeParseWith(filename, source, g) ==
    IF g.threw # NoError
    THEN [fi |-> g.fi, td |-> g.td, out |-> source, ids |-> <<>>,
          threw |-> g.threw]
    ELSE AssignSource(source,
             RewriteComments([fi |-> g.fi, td |-> g.td], filename, source,
                             DocComments(source, 1), 1))

\* function beforeParse(e), as a function of the maps and the event
beforeParse(st, filename, source) ==
    beforeParseWith(filename, source, getFileInfo(st, filename, source))

----------------------------------------------------------------------------
(* jsdocCommentFound.                                                      *)

\* The condition without its test of fileInfo.moduleId.
QualifiesAnyModule(moduleId, typeDefsSet, identifier) ==
    identifier \in typeDefsSet

\* The condition of line 223.
Qualifies(moduleId, typeDefsSet, identifier) ==
    moduleId # <<>> /\ identifier \in typeDefsSet

\* The callback of typeExpr.replace(identifiers, ...) (lines 223-225)
RewriteIdentifier(moduleId, typeDefsSet, identifier) ==
    IF Qualifies(moduleId, typeDefsSet, identifier)
    THEN sModule \o moduleId \o <<"~">> \o identifier
    ELSE identifier

RECURSIVE RewriteIdentifiers(_, _, _, _)

\* The identifier of t from position i to e, and what follows it.
RewriteIdentifierAt(t, i, e, moduleId, typeDefsSet) ==
    RewriteIdentifier(moduleId, typeDefsSet, SubSeq(t, i, e))
    \o RewriteIdentifiers(t, e + 1, moduleId, typeDefsSet)

\* typeExpr.replace(identifiers, ...) from position i of the type expression
RewriteIdentifiers(t, i, moduleId, typeDefsSet) ==
    IF i > Len(t) THEN <<>>
    ELSE IF t[i] \notin IdentCh
    THEN <<t[i]>> \o RewriteIdentifiers(t, i + 1, moduleId, typeDefsSet)
    ELSE RewriteIdentifierAt(t, i, RunEnd(t, IdentCh, i), moduleId, typeDefsSet)

RECURSIVE RewriteTypes(_, _, _, _)

\* The type expression of c from a to b (0 when there is none at or after
\* position i), and what follows it.
RewriteTypeAt(c, i, a, b, moduleId, typeDefsSet) ==
    IF a = 0 \/ b = 0 THEN SubSeq(c, i, Len(c))
    ELSE SubSeq(c, i, a - 1)
         \o RewriteIdentifiers(SubSeq(c, a, b), 1, moduleId, typeDefsSet)
         \o RewriteTypes(c, b + 1, moduleId, typeDefsSet)

\* The first "}" of c after position a, 0 when a = 0 or there is none
CloseAfter(c, a) == IF a = 0 THEN 0 ELSE IndexOf(c, <<"}">>, a + 1)

TypeFrom(c, i, a, moduleId, typeDefsSet) ==
    RewriteTypeAt(c, i, a, CloseAfter(c, a), moduleId, typeDefsSet)

\* e.comment.replace(typeRegex, ...) from position i of the comment
RewriteTypes(c, i, moduleId, typeDefsSet) ==
    TypeFrom(c, i, IndexOf(c, <<"{">>, i), moduleId, typeDefsSet)

\* Lines 218-227 with g, what getFileInfo(e.filename) gave
jsdocCommentFoundWith(comment, g) ==
    IF g.threw # NoError \/ g.info.moduleId \notin DOMAIN g.td
    THEN [fi |-> g.fi, td |-> g.td, out |-> comment, hit |-> g.hit,
          threw |-> g.threw]
    ELSE [fi |-> g.fi, td |-> g.td,
          out |-> RewriteTypes(comment, 1, g.info.moduleId,
                               g.td[g.info.moduleId]),
          hit |-> g.hit, threw |-> NoError]

\* function jsdocCommentFound(e), as a function of the maps and the event
jsdocCommentFound(st, filename, comment) ==
    jsdocCommentFoundWith(comment, getFileInfo(st, filename, <<>>))

----------------------------------------------------------------------------
(* The files of a run.  Texts are built from the tags the plugin reads.    *)

P_m == <<"/","s","/","m",".","j","s">>
P_v == <<"/","s","/","v",".","j","s">>
P_n == <<"/","s","/","n",".","j","s">>
P_y == <<"/","s","2","/","x","/","y",".","j","s">>
Paths == {P_m, P_v, P_n, P_y}

RootS  == <<"/","s">>
RootS2 == <<"/","s","2">>
RootLists == { <<RootS>>, <<RootS, RootS2>>, <<RootS2, RootS>>, <<RootS2>> }

Doc(body) == sDocOpen \o <<" ">> \o body \o <<" ">> \o sDocClose

\* "@module" or "@module <name>"
ModuleTag(name) ==
    sModuleTag \o (IF name = <<>> THEN <<>> ELSE <<" ">> \o name)

\* "@typedef {<type>} <name>"
TypedefTag(type, name) ==
    sTypedef \o <<" ", "{">> \o type \o <<"}", " ">> \o name

\* "<marker>import('<spec>').<sym>"
ImportRef(marker, quote, spec, sym) ==
    marker \o sImport \o <<quote>> \o spec \o <<quote, ")">>
    \o (IF sym = Undefined THEN <<>> ELSE <<".">> \o sym)

NameAB == <<"a","/","b">>
NameV  == <<"v">>
TypeT  == <<"T">>
TypeU  == <<"U">>

\* A file of type definitions: decl is "explicit" (@module a/b), "implicit"
\* (@module without a name) or "none".
ModelText(decl, typedefName) ==
    (IF decl = "explicit" THEN Doc(ModuleTag(NameAB))
     ELSE IF decl = "implicit" THEN Doc(ModuleTag(<<>>))
     ELSE <<>>)
    \o Doc(TypedefTag(<<"o">>, typedefName))

Decls == {"explicit", "implicit", "none"}

\* "@type {T|U|x.T} T": bare identifiers inside and outside braces
UseTag == <<"@","t","y","p","e"," ","{","T","|","U","|","x",".","T","}"," ","T">>

SpecM    == <<".","/","m">>
SpecMjs  == <<".","/","m",".","j","s">>
SpecY    == <<".",".","/","s","2","/","x","/","y">>
SpecUpM  == <<".",".","/",".",".","/","s","/","m">>
SpecN    == <<".","/","n">>
SpecQ    == <<".",".","/","q","/","n">>
SpecLib  == <<"l","i","b">>
Specifiers == {SpecM, SpecMjs, SpecY, SpecUpM, SpecN, SpecQ, SpecLib}

\* The importing files: a module declaration (or none), a typedef of T
\* whose type is one import reference, and a use of bare type names.
Views ==
    { [hdr |-> NameV,  marker |-> <<"!">>, quote |-> "'",  spec |-> SpecM,   sym |-> TypeT],
      [hdr |-> <<>>,   marker |-> <<"?">>, quote |-> "'",  spec |-> SpecMjs, sym |-> TypeT],
      [hdr |-> NameV,  marker |-> <<>>,    quote |-> "\"", spec |-> SpecM,   sym |-> Undefined],
      [hdr |-> NameAB, marker |-> <<>>,    quote |-> "'",  spec |-> SpecY,   sym |-> TypeU],
      [hdr |-> <<>>,   marker |-> <<>>,    quote |-> "'",  spec |-> SpecN,   sym |-> TypeT],
      [hdr |-> <<>>,   marker |-> <<"!">>, quote |-> "'",  spec |-> SpecQ,   sym |-> TypeT],
      [hdr |-> NameV,  marker |-> <<>>,    quote |-> "'",  spec |-> SpecLib, sym |-> TypeT] }

ViewHead(v) == IF v.hdr = <<>> THEN <<>> ELSE Doc(ModuleTag(v.hdr))
ViewOpen    == sDocOpen \o <<" ">> \o sTypedef \o <<" ", "{">>
ViewClose   == <<"}", " ">> \o TypeT \o <<" ">> \o sDocClose
ViewText(v) ==
    ViewHead(v) \o ViewOpen \o ImportRef(v.marker, v.quote, v.spec, v.sym)
    \o ViewClose \o Doc(UseTag)

NoSource == <<"unparsed">>
NoCall == [op |-> "none", filename |-> <<>>, arg |-> <<>>, out |-> <<>>,
           ids |-> <<>>, hit |-> FALSE, threw |-> NoError]

\* The files the host parses: those below a configured source directory.
HostFiles ==
    { f \in Paths : IsFile(f) /\ \E i \in 1..Len(absSrcDirs) :
                                    StartsWith(f, absSrcDirs[i] \o <<"/">>) }

\* The file of the model a specifier of the views points at.
Target(spec) ==
    IF spec \in {SpecM, SpecMjs} THEN P_m
    ELSE IF spec = SpecY THEN P_y
    ELSE <<>>

\* The runs: /s/m.js declares @module a/b and /s2/x/y.js an argument-less
\* @module, except that the file the view imports takes every declaration.
Runs ==
    { r \in [dm : Decls, dy : {"explicit", "implicit"}, v : Views] :
        /\ Target(r.v.spec) # P_m => r.dm = "explicit"
        /\ Target(r.v.spec) # P_y => r.dy = "implicit" }

Init ==
    /\ absSrcDirs \in RootLists
    /\ \E r \in Runs :
          fs = [p \in Paths |->
                  IF p = P_m THEN ModelText(r.dm, TypeT)
                  ELSE IF p = P_y THEN ModelText(r.dy, TypeU)
                  ELSE IF p = P_v THEN ViewText(r.v)
                  ELSE NoFile]
    /\ fileInfos = <<>>
    /\ moduleToTypeDefs = <<>>
    /\ parsed = [p \in Paths |-> NoSource]
    /\ aborted = FALSE
    /\ ev = NoCall
    /\ fsChanges = 0

----------------------------------------------------------------------------
(* The calls.  An exception that leaves a handler ends the run.            *)

St == [fi |-> fileInfos, td |-> moduleToTypeDefs]

\* The host reads file f and fires beforeParse with its text.
BeforeParse(f) ==
    /\ ~aborted
    /\ f \in HostFiles
    /\ parsed[f] = NoSource
    /\ \E r \in {beforeParse(St, f, fs[f])} :
           /\ fileInfos' = r.fi
           /\ moduleToTypeDefs' = r.td
           /\ parsed' = IF r.threw = NoError THEN [parsed EXCEPT ![f] = r.out]
                        ELSE parsed
           /\ aborted' = (r.threw # NoError)
           /\ ev' = [op |-> "beforeParse", filename |-> f, arg |-> fs[f],
                     out |-> r.out, ids |-> r.ids, hit |-> FALSE,
                     threw |-> r.threw]
    /\ UNCHANGED <<absSrcDirs, fs, fsChanges>>

\* The text of f the host holds: e.source as beforeParse left it, or the
\* file as stored when beforeParse has not run for it.
HostText(f) == IF parsed[f] # NoSource THEN parsed[f] ELSE fs[f]

\* The documentation comments of a text, in order.
CommentsOf(text) ==
    LET spans == DocComments(text, 1)
    IN  [k \in 1..Len(spans) |-> SubSeq(text, spans[k][1], spans[k][2])]

\* The host fires jsdocCommentFound for the k-th comment of file f.
JsdocCommentFound(f, k) ==
    /\ ~aborted
    /\ f \in HostFiles
    /\ \E comments \in {CommentsOf(HostText(f))} :
         /\ k <= Len(comments)
         /\ \E r \in {jsdocCommentFound(St, f, comments[k])} :
              /\ fileInfos' = r.fi
              /\ moduleToTypeDefs' = r.td
              /\ aborted' = (r.threw # NoError)
              /\ ev' = [op |-> "jsdocCommentFound", filename |-> f,
                        arg |-> comments[k], out |-> r.out, ids |-> <<>>,
                        hit |-> r.hit, threw |-> r.threw]
    /\ UNCHANGED <<absSrcDirs, fs, parsed, fsChanges>>

\* getModuleId called on its own.
GetModuleIdCall(f, spec) ==
    /\ ~aborted
    /\ IsFile(f)
    /\ \E r \in {getModuleId(St, f, spec)} :
           /\ fileInfos' = r.fi
           /\ moduleToTypeDefs' = r.td
           /\ aborted' = (r.threw # NoError)
           /\ ev' = [op |-> "getModuleId", filename |-> f, arg |-> spec,
                     out |-> r.id, ids |-> <<>>, hit |-> FALSE,
                     threw |-> r.threw]
    /\ UNCHANGED <<absSrcDirs, fs, parsed, fsChanges>>

MaxFsChanges == 1

\* Storage changes under the run: file p is written or removed.
FsChange(p, text) ==
    /\ ~aborted
    /\ fsChanges < MaxFsChanges
    /\ text # fs[p]
    /\ fs' = [fs EXCEPT ![p] = text]
    /\ fsChanges' = fsChanges + 1
    /\ UNCHANGED <<absSrcDirs, fileInfos, moduleToTypeDefs, parsed, aborted, ev>>

\* The (importing file, specifier) pairs getModuleId is called with on its
\* own; beforeParse calls it with the specifier of the importing file.
Calls == { <<P_v, SpecM>>, <<P_y, SpecUpM>> }

Next ==
    \/ \E f \in Paths : BeforeParse(f)
    \/ \E f \in Paths, k \in 1..3 : JsdocCommentFound(f, k)
    \/ \E c \in Calls : GetModuleIdCall(c[1], c[2])

Spec == Init /\ [][Next]_vars

\* Under the run /s/m.js is removed, or rewritten without its @module tag.
NextFs ==
    \/ Next
    \/ \E text \in {NoFile, ModelText("none", TypeT)} : FsChange(P_m, text)

SpecFs == Init /\ [][NextFs]_vars

----------------------------------------------------------------------------
(* Properties of the handlers, one per claim of the specification.        *)

RECURSIVE Flatten(_)
Flatten(ss) == IF ss = <<>> THEN <<>> ELSE Head(ss) \o Flatten(Tail(ss))

\* The view of the run whose text is the given source.
IsView(v, source) == source = ViewText(v)

\* What the claims expect beforeParse to make of view v when getModuleId
\* returns id: the reference becomes ref, everything else stays.
ViewWith(v, ref) ==
    ViewHead(v) \o ViewOpen \o v.marker \o ref \o ViewClose \o Doc(UseTag)

SymbolAlone(v) == IF v.sym = Undefined THEN <<>> ELSE v.sym

ModuleRef(v, id) ==
    sModule \o id \o (IF v.sym = Undefined THEN <<>> ELSE <<"~">> \o v.sym)

\* C1: beforeParse replaces an import reference by module:<id>~<Symbol>
\* (module:<id> without a symbol) when getModuleId returns a non-empty id and
\* by the symbol name alone when it returns an empty one, whether or not a
\* symbol was captured; the text outside the match, a leading ! or ?
\* included, stays as it was.
C1_Claim ==
    (ev.op = "beforeParse" /\ ev.threw = NoError) =>
        /\ ev.filename # P_v => ev.out = ev.arg
        /\ \A v \in Views : (ev.filename = P_v /\ IsView(v, ev.arg)) =>
              /\ Len(ev.ids) = 1
              /\ ev.out = ViewWith(v, IF ev.ids[1] # <<>>
                                      THEN ModuleRef(v, ev.ids[1])
                                      ELSE SymbolAlone(v))

\* The (importing file, specifier) pairs whose specifier points at /s/m.js
PointsAtM == { <<P_v, SpecM>>, <<P_v, SpecMjs>>, <<P_y, SpecUpM>> }

\* The getModuleId calls of the last handler, as <<file, specifier, id>>
LastResolutions ==
    IF ev.threw # NoError THEN {}
    ELSE IF ev.op = "getModuleId" THEN {<<ev.filename, ev.arg, ev.out>>}
    ELSE IF ev.op = "beforeParse" /\ Len(ev.ids) = 1
    THEN { <<ev.filename, v.spec, ev.ids[1]>> :
             v \in { w \in Views : IsView(w, ev.arg) } }
    ELSE {}

\* C2: when /s/m.js declares @module a/b, getModuleId from another file
\* with a relative specifier that points at it yields a/b, with the
\* extension written or omitted.
C2_Claim ==
    fs[P_m] = ModelText("explicit", TypeT) =>
        \A c \in LastResolutions : <<c[1], c[2]>> \in PointsAtM => c[3] = NameAB

\* File f declares an argument-less @module as its first module tag.
IsImplicit(f) == f \in {P_m, P_y} /\ \E t \in {TypeT, TypeU} :
                                        fs[f] = ModelText("implicit", t)

\* File f lies in the directory tree of root.
Under(f, root) == StartsWith(f, root \o <<"/">>)

Roots == { absSrcDirs[i] : i \in 1..Len(absSrcDirs) }

\* The path of f = <root>/x/y.js relative to root, ".js" stripped
RelativeTo(f, root) == SubSeq(f, Len(root) + 2, Len(f) - 3)

\* C3: a file <root>/x/y.js of a configured root whose first module tag is
\* an argument-less @module gets the moduleId x/y, for every list of roots.
C3_Claim ==
    \A f \in DOMAIN fileInfos, root \in Roots :
        (IsImplicit(f) /\ Under(f, root)) =>
            fileInfos[f].moduleId = RelativeTo(f, root)

\* The identifier tokens of a comment, position by position.
InBraces(c, i) ==
    /\ \E a \in 1..i : c[a] = "{" /\ \A j \in a..(i - 1) : c[j] # "}"
    /\ \E b \in i..Len(c) : c[b] = "}"

TokenStart(c, i) == c[i] \in IdentCh /\ (i = 1 \/ c[i - 1] \notin IdentCh)

TokenFrom(c, i) ==
    SubSeq(c, i, CHOOSE e \in i..Len(c) :
                    /\ \A j \in i..e : c[j] \in IdentCh
                    /\ (e = Len(c) \/ c[e + 1] \notin IdentCh))

\* The comment with module:<m>~ put before each identifier token in braces
\* that is in names, when m is not empty.
Qualified(c, m, names) ==
    Flatten([i \in 1..Len(c) |->
        (IF TokenStart(c, i) /\ InBraces(c, i) /\ m # <<>>
            /\ TokenFrom(c, i) \in names
         THEN sModule \o m \o <<"~">> ELSE <<>>) \o <<c[i]>>])

\* C4: jsdocCommentFound rewrites an identifier token inside a {...} type
\* expression to module:<m>~<identifier> exactly when the moduleId m of the
\* owning file is not empty and the identifier is in the index set of m;
\* every other identifier and the text outside braces stay untouched.
C4_Thm ==
    (ev.op = "jsdocCommentFound" /\ ev.threw = NoError) =>
        /\ ev.filename \in DOMAIN fileInfos
        /\ fileInfos[ev.filename].moduleId \in DOMAIN moduleToTypeDefs
        /\ ev.out = Qualified(ev.arg, fileInfos[ev.filename].moduleId,
                        moduleToTypeDefs[fileInfos[ev.filename].moduleId])

sUse          == Doc(UseTag)
sUseQualified == sDocOpen \o <<" ","@","t","y","p","e"," ","{">> \o sModule
                 \o <<"v","~","T","|","U","|","x",".","T","}"," ","T"," ">>
                 \o sDocClose

\* A comment "@type {T|U|x.T} T" of a file of module v became
\* "@type {module:v~T|U|x.T} T".
C4_Witness ==
    /\ ev.op = "jsdocCommentFound" /\ ev.threw = NoError
    /\ ev.arg = sUse /\ ev.out = sUseQualified

Elems(seq) == { seq[i] : i \in 1..Len(seq) }

TypedefsIndexed ==
    \A f \in DOMAIN fileInfos :
        /\ fileInfos[f].moduleId \in DOMAIN moduleToTypeDefs
        /\ Elems(fileInfos[f].typedefs)
              \subseteq moduleToTypeDefs[fileInfos[f].moduleId]

IndexGrows ==
    \A m \in DOMAIN moduleToTypeDefs :
        /\ m \in DOMAIN moduleToTypeDefs'
        /\ moduleToTypeDefs[m] \subseteq moduleToTypeDefs'[m]

\* C5: in every reachable state the typedefs of every cached FileInfo are in
\* the index set of its moduleId, and no step removes a key or a name from
\* the index: files that share a moduleId have their typedefs merged.
C5_Thm == []TypedefsIndexed /\ [][IndexGrows]_vars

\* Two cached files share the moduleId a/b, one declares T and the other U,
\* and the set of a/b holds both.
C5_Witness ==
    /\ P_m \in DOMAIN fileInfos /\ P_y \in DOMAIN fileInfos
    /\ fileInfos[P_m].moduleId = NameAB /\ fileInfos[P_y].moduleId = NameAB
    /\ fileInfos[P_m].typedefs = <<TypeT>> /\ fileInfos[P_y].typedefs = <<TypeU>>
    /\ moduleToTypeDefs[NameAB] = {TypeT, TypeU}

\* C6: two getModuleId calls with the same (file, specifier) return the same
\* moduleId, whatever storage did between them.
C6_Claim ==
    [][(/\ ev.op = "getModuleId" /\ ev'.op = "getModuleId"
        /\ ev.threw = NoError /\ ev'.threw = NoError
        /\ ev'.filename = ev.filename /\ ev'.arg = ev.arg)
       => ev'.out = ev.out]_vars

\* The path a specifier of a view names, seen from /s/v.js
MissingPath(spec) ==
    IF spec = SpecN THEN <<"/","s","/","n">> ELSE <<"/","q","/","n">>

\* C7: a relative specifier that names no file (the directory missing
\* included) does not make beforeParse throw: the reference becomes the bare
\* symbol name and the missing file is cached with an empty moduleId and no
\* typedefs.
C7_Claim ==
    \A v \in Views :
        (/\ ev.op = "beforeParse" /\ ev.filename = P_v /\ IsView(v, ev.arg)
         /\ v.spec \in {SpecN, SpecQ}) =>
            /\ ev.threw = NoError
            /\ ev.out = ViewWith(v, v.sym)
            /\ MissingPath(v.spec) \in DOMAIN fileInfos
            /\ fileInfos[MissingPath(v.spec)].moduleId = <<>>
            /\ fileInfos[MissingPath(v.spec)].typedefs = <<>>

\* C8: a file with an argument-less @module that lies under no configured
\* root makes getFileInfo throw: no FileInfo is cached for it.
C8_Claim ==
    \A f \in Paths :
        (IsImplicit(f) /\ \A root \in Roots : ~Under(f, root)) =>
            f \notin DOMAIN fileInfos

AllParsed == \A f \in HostFiles : parsed[f] # NoSource

\* C9: once beforeParse has run for every file of the host, a
\* jsdocCommentFound call for a comment of one of them finds the FileInfo
\* in the cache and leaves fileInfos and moduleToTypeDefs unchanged.
C9_Thm ==
    [][(/\ ev'.op = "jsdocCommentFound" /\ ev' # ev
        /\ AllParsed /\ ev'.filename \in HostFiles)
       => (/\ ev'.hit
           /\ fileInfos' = fileInfos
           /\ moduleToTypeDefs' = moduleToTypeDefs)]_vars

\* After every beforeParse, a jsdocCommentFound call hit the cache and
\* changed the comment.
C9_Witness ==
    /\ AllParsed /\ HostFiles # {}
    /\ ev.op = "jsdocCommentFound" /\ ev.filename \in HostFiles
    /\ ev.hit /\ ev.out # ev.arg

\* The characters of a module-reference token
RefCh == IdentCh \cup {":", "/", "~"}

\* C10: a token module:<m>~<S> that beforeParse wrote into a comment is
\* still in the comment when jsdocCommentFound has processed it.
C10_Claim ==
    (/\ ev.op = "jsdocCommentFound" /\ ev.threw = NoError
     /\ parsed[ev.filename] # NoSource) =>
        \A i \in 1..Len(ev.arg) :
            (At(ev.arg, sModule, i) /\ InBraces(ev.arg, i)) =>
                IndexOf(ev.out, SubSeq(ev.arg, i, RunEnd(ev.arg, RefCh, i)), 1) # 0

====
